---- MODULE Spec2Model ----
(***************************************************************************)
(* A model of pytube's stream-resolution session (src/pytube/api.py):      *)
(* class YouTube, its from_url pipeline, the stream-map decoder, the       *)
(* brace scanner, the cipher resolver and the get/filter queries.          *)
(*                                                                         *)
(* Text is modelled as a sequence of lexical tokens (a TLA+ string each):  *)
(* the delimiters "," "&" "=" "{" "}", the percent escapes "%2C" "%26"     *)
(* "%3D", and words such as "itag", "signature", "18".  Splitting,         *)
(* unquoting and pattern search work on these sequences as the Python code  *)
(* works on characters.                                                    *)
(***************************************************************************)
EXTENDS Integers, Sequences, FiniteSets, TLC

VARIABLES
    yt,       \* the YouTube instance: _filename, _video_url, _js_code, _videos, title
    call,     \* the activation of from_url: position, locals, outcome, fetch log
    ref,      \* a fresh YouTube() instance given the same call (for comparison)
    calls,    \* number of from_url calls started on yt
    pblob,    \* argument of _parse_stream_map
    pres,     \* its outcome
    jhtml,    \* argument of _get_json_offset
    jres,     \* its outcome
    gcrit,    \* arguments of get / filter
    gres      \* outcome of get

vars == <<yt, call, ref, calls, pblob, pres, jhtml, jres, gcrit, gres>>

----------------------------------------------------------------------------
(* Bounds *)

MaxSegs == 3         \* comma-separated segments of a page's stream map
MaxCalls == 2        \* from_url calls on one instance
MaxParseSegs == 2    \* segments of a blob given to _parse_stream_map alone
MaxParsePairs == 2   \* '&'-separated sub-segments of such a segment
MaxJsonLen == 5      \* length of a text given to _get_json_offset
MaxVideos == 3       \* size of a collection queried by get / filter

----------------------------------------------------------------------------
(* Text helpers *)

\* Python's None and False where a text may stand: a text of one token that
\* no real text holds
None == <<"None">>

False == <<"False">>

\* the value of a variable the specification at hand does not use
Unused == "unused"

\* s[a..b], 1-based, empty when a > b
Slice(s, a, b) == [i \in 1..(b - a + 1) |-> s[a + i - 1]]

\* Positions of the token sep in s, in increasing order.
RECURSIVE SepPositions(_, _, _)
SepPositions(s, sep, from) ==
    IF from > Len(s) THEN <<>>
    ELSE IF s[from] = sep THEN <<from>> \o SepPositions(s, sep, from + 1)
    ELSE SepPositions(s, sep, from + 1)

\* str.split(sep): the pieces between separators, empty pieces kept;
\* a text without the separator is one piece.
Split(s, sep) ==
    LET ps == SepPositions(s, sep, 1)
        n  == Len(ps)
        lo(i) == IF i = 1 THEN 1 ELSE ps[i - 1] + 1
        hi(i) == IF i = n + 1 THEN Len(s) ELSE ps[i] - 1
    IN [i \in 1..(n + 1) |-> Slice(s, lo(i), hi(i))]

\* urllib unquote of one token: a percent escape becomes the character it encodes.
UnquoteToken(t) ==
    CASE t = "%2C" -> ","
      [] t = "%26" -> "&"
      [] t = "%3D" -> "="
      [] OTHER -> t

unquote(s) == [i \in 1..Len(s) |-> UnquoteToken(s[i])]

\* whether pat occurs in s as a contiguous run ("pat in s")
Contains(s, pat) ==
    \E i \in 1..(Len(s) - Len(pat) + 1) :
        \A j \in 1..Len(pat) : s[i + j - 1] = pat[j]

RECURSIVE Join(_, _)
Join(ss, sep) ==
    IF ss = <<>> THEN <<>>
    ELSE IF Len(ss) = 1 THEN ss[1]
    ELSE ss[1] \o <<sep>> \o Join(Tail(ss), sep)

SeqsUpTo(S, n) == UNION {[1..k -> S] : k \in 1..n}

----------------------------------------------------------------------------
(* _parse_stream_map *)

StreamMapKeys == {"itag", "url", "quality", "fallback_host", "s", "type"}

EmptyDct == [k \in StreamMapKeys |-> <<>>]

\* dct.get(key, []).append(unquote(value)): a key of dct gets the value
\* appended to its list; for any other key the value goes to a list that is
\* thrown away.
DctGetAppend(dct, key, value) ==
    IF Len(key) = 1 /\ key[1] \in DOMAIN dct
    THEN [dct EXCEPT ![key[1]] = Append(@, unquote(value))]
    ELSE dct

\* the inner loop over one video's sub-segments; key, value = kv.split("=")
\* raises ValueError unless the split yields exactly two pieces
RECURSIVE ParsePairs(_, _)
ParsePairs(st, kvs) ==
    IF kvs = <<>> \/ st.err # "none" THEN st
    ELSE LET parts == Split(Head(kvs), "=")
         IN IF Len(parts) # 2
            THEN [st EXCEPT !.err = "ValueError"]
            ELSE ParsePairs([st EXCEPT !.dct = DctGetAppend(@, parts[1], parts[2])],
                            Tail(kvs))

RECURSIVE ParseVideos(_, _)
ParseVideos(st, videos) ==
    IF videos = <<>> \/ st.err # "none" THEN st
    ELSE ParseVideos(ParsePairs(st, Head(videos)), Tail(videos))

\* blob None (the field is absent from the config): blob.split raises
_parse_stream_map(blob) ==
    IF blob = None THEN [err |-> "AttributeError", dct |-> EmptyDct]
    ELSE LET segs   == Split(blob, ",")
             videos == [i \in 1..Len(segs) |-> Split(segs[i], "&")]
         IN ParseVideos([err |-> "none", dct |-> EmptyDct], videos)

----------------------------------------------------------------------------
(* Inputs of the decoder taken alone *)

ParseSubSegments ==
    { <<"url", "=", "u", "%3D", "x">>,
      <<"url", "=", "v", "%26", "y">>,
      <<"s", "=", "t1">>,
      <<"s", "=", "t2", "%2C">>,
      <<"itag", "=", "18">>,
      <<"clen", "=", "5">>,
      <<"bad">>,
      <<"a", "=", "b", "=", "c">> }

ParseSegments == { Join(ps, "&") : ps \in SeqsUpTo(ParseSubSegments, MaxParsePairs) }

ParseBlobs == { Join(ss, ",") : ss \in SeqsUpTo(ParseSegments, MaxParseSegs) }

ParseInit ==
    /\ pblob \in ParseBlobs
    /\ pres = [state |-> "pending"]
    /\ yt = Unused /\ call = Unused /\ ref = Unused /\ calls = 0
    /\ jhtml = Unused /\ jres = Unused /\ gcrit = Unused /\ gres = Unused

ParseStreamMap ==
    /\ pres.state = "pending"
    /\ pres' = [state |-> "returned"] @@ _parse_stream_map(pblob)
    /\ UNCHANGED <<yt, call, ref, calls, pblob, jhtml, jres, gcrit, gres>>

ParseNext == ParseStreamMap

SpecParse == ParseInit /\ [][ParseNext]_vars

----------------------------------------------------------------------------
(* Claims about _parse_stream_map *)

BlobSegments(blob) == Split(blob, ",")

SegmentPairs(seg) ==
    LET kvs == Split(seg, "&") IN [i \in 1..Len(kvs) |-> Split(kvs[i], "=")]

\* every '&'-separated sub-segment contains exactly one '='
WellFormedBlob(blob) ==
    \A i \in 1..Len(BlobSegments(blob)) :
        \A j \in 1..Len(SegmentPairs(BlobSegments(blob)[i])) :
            Len(SegmentPairs(BlobSegments(blob)[i])[j]) = 2

\* the number of records of the returned structure: its longest list
NumRecords(dct) ==
    CHOOSE n \in 0..(MaxParseSegs * MaxParsePairs + 1) :
        /\ \A k \in DOMAIN dct : Len(dct[k]) <= n
        /\ n > 0 => \E k \in DOMAIN dct : Len(dct[k]) = n

\* every key of the blob is one of the decoder's six keys
OnlyKnownKeys(blob) ==
    \A i \in 1..Len(BlobSegments(blob)) :
        \A j \in 1..Len(SegmentPairs(BlobSegments(blob)[i])) :
            LET key == SegmentPairs(BlobSegments(blob)[i])[j][1]
            IN Len(key) = 1 /\ key[1] \in StreamMapKeys

\* no segment of the blob gives a key twice
NoRepeatedKey(blob) ==
    \A i \in 1..Len(BlobSegments(blob)) :
        LET pairs == SegmentPairs(BlobSegments(blob)[i])
        IN \A j, l \in 1..Len(pairs) : pairs[j][1] = pairs[l][1] => j = l

\* C3: for a blob whose sub-segments each hold exactly one '=', decoding
\* succeeds, yields as many records as there are comma-separated segments,
\* and record i holds, under each key, exactly the decoded values segment i
\* gives that key (and nothing when segment i lacks the key), also when the
\* segments do not carry the same keys.  Stated here for the blobs that use
\* only the decoder's six keys (other keys are the subject of C4), each at
\* most once per segment.
C3_OneRecordPerSegment ==
    (/\ pres.state = "returned"
     /\ WellFormedBlob(pblob)
     /\ OnlyKnownKeys(pblob)
     /\ NoRepeatedKey(pblob)) =>
        /\ pres.err = "none"
        /\ NumRecords(pres.dct) = Len(BlobSegments(pblob))
        /\ \A i \in 1..Len(BlobSegments(pblob)) :
             LET pairs == SegmentPairs(BlobSegments(pblob)[i])
             IN \A k \in StreamMapKeys :
                 /\ \A j \in 1..Len(pairs) :
                      pairs[j][1] = <<k>> =>
                          /\ i <= Len(pres.dct[k])
                          /\ pres.dct[k][i] = unquote(pairs[j][2])
                 /\ i <= Len(pres.dct[k]) =>
                      \E j \in 1..Len(pairs) : pairs[j][1] = <<k>>

\* C4: for a well-formed blob, the decoded value of every sub-segment whose
\* key is not one of the six known keys is present in the returned structure
\* under that key.
C4_UnknownKeysPreserved ==
    (pres.state = "returned" /\ WellFormedBlob(pblob)) =>
        \A i \in 1..Len(BlobSegments(pblob)) :
            LET pairs == SegmentPairs(BlobSegments(pblob)[i])
            IN \A j \in 1..Len(pairs) :
                (Len(pairs[j][1]) = 1 /\ pairs[j][1][1] \notin StreamMapKeys) =>
                    /\ pairs[j][1][1] \in DOMAIN pres.dct
                    /\ \E n \in 1..Len(pres.dct[pairs[j][1][1]]) :
                         pres.dct[pairs[j][1][1]][n] = unquote(pairs[j][2])

----------------------------------------------------------------------------
(* _get_json_offset *)

\* the loop "for idx, ch in enumerate(html)" from position p (idx = p - 1)
\* with the stack brackets; the else branch of the loop raises when the text
\* is exhausted without a break; brackets.pop() on an empty list raises
\* IndexError.  index is the value added to idx on return.
RECURSIVE JsonScan(_, _, _, _)
JsonScan(html, p, brackets, index) ==
    IF p > Len(html) THEN [kind |-> "raise", value |-> "PytubeError"]
    ELSE IF html[p] = "{" THEN JsonScan(html, p + 1, Append(brackets, "}"), index)
    ELSE IF html[p] = "}" THEN
        IF brackets = <<>> THEN [kind |-> "raise", value |-> "IndexError"]
        ELSE IF Len(brackets) = 1 THEN [kind |-> "return", value |-> index + (p - 1)]
        ELSE JsonScan(html, p + 1, SubSeq(brackets, 1, Len(brackets) - 1), index)
    ELSE JsonScan(html, p + 1, brackets, index)

_get_json_offset_ZeroIndex(html) == JsonScan(html, 1, <<>>, 0)

_get_json_offset(html) == JsonScan(html, 1, <<>>, 1)

JsonAlphabet == {"{", "}", "x"}

JsonTexts == {<<>>} \cup SeqsUpTo(JsonAlphabet, MaxJsonLen)

JsonInit ==
    /\ jhtml \in JsonTexts
    /\ jres = [kind |-> "pending"]
    /\ yt = Unused /\ call = Unused /\ ref = Unused /\ calls = 0
    /\ pblob = Unused /\ pres = Unused /\ gcrit = Unused /\ gres = Unused

GetJsonOffset ==
    /\ jres.kind = "pending"
    /\ jres' = _get_json_offset(jhtml)
    /\ UNCHANGED <<yt, call, ref, calls, pblob, pres, jhtml, gcrit, gres>>

JsonNext == GetJsonOffset

SpecJson == JsonInit /\ [][JsonNext]_vars

\* number of '{' minus number of '}' among the first n tokens of s
Depth(s, n) ==
    Cardinality({i \in 1..n : s[i] = "{"}) - Cardinality({i \in 1..n : s[i] = "}"})

\* s is a balanced brace expression followed by trailing text: it opens with
\* '{' and that brace is closed at position p (1-based)
ClosesAt(s, p) ==
    /\ p \in 1..Len(s)
    /\ s[1] = "{"
    /\ Depth(s, p) = 0
    /\ \A q \in 1..(p - 1) : Depth(s, q) > 0

BalancedThenTrailing(s) == \E p \in 1..Len(s) : ClosesAt(s, p)

\* the unbalanced texts of the claim: no brace at all, a '}' before any '{',
\* or a '{' whose nesting is never closed by the end of the text
NoBrace(s) == \A i \in 1..Len(s) : s[i] = "x"

CloseOnEmptyStack(s) ==
    \E i \in 1..Len(s) : s[i] = "}" /\ \A q \in 1..(i - 1) : s[q] = "x"

NeverClosed(s) ==
    /\ \E i \in 1..Len(s) : s[i] = "{"
    /\ \A i \in 1..Len(s) : (\E q \in 1..i : s[q] # "x") => Depth(s, i) > 0

\* the 0-based offset of the token at 1-based position p
Offset(p) == p - 1

\* C8 as stated: on a balanced expression followed by trailing text the
\* result is exactly the offset of the '}' closing the first top-level '{'.
C8_ReturnsOffsetOfClose ==
    (jres.kind # "pending" /\ BalancedThenTrailing(jhtml)) =>
        \A p \in 1..Len(jhtml) :
            ClosesAt(jhtml, p) => jres = [kind |-> "return", value |-> Offset(p)]

\* C8 amended: on a balanced expression followed by trailing text the result
\* is the offset just past the '}' closing the first top-level '{' (that
\* brace's offset plus one, so html[:offset] ends with it); on a text with no
\* brace, with a '}' met on an empty stack, or with a '{' never closed, the
\* call raises instead of returning.
C8_ReturnsOffsetPastClose ==
    jres.kind # "pending" =>
        /\ \A p \in 1..Len(jhtml) :
             ClosesAt(jhtml, p) => jres = [kind |-> "return", value |-> Offset(p) + 1]
        /\ (NoBrace(jhtml) \/ NeverClosed(jhtml)) =>
             jres = [kind |-> "raise", value |-> "PytubeError"]
        /\ CloseOnEmptyStack(jhtml) =>
             jres = [kind |-> "raise", value |-> "IndexError"]

\* a nested object followed by trailing text has been scanned
C8_Witness ==
    /\ jres.kind = "return"
    /\ ClosesAt(jhtml, 4)
    /\ Len(jhtml) > 4

----------------------------------------------------------------------------
(* The quality profile table and the itag of a url *)

YT_QUALITY_PROFILES ==
    (5   :> <<"flv", "240p", "Sorenson H.263", "N/A", "0.25", "MP3", "64">>) @@
    (17  :> <<"3gp", "144p", "MPEG-4 Visual", "Simple", "0.05", "AAC", "24">>) @@
    (36  :> <<"3gp", "240p", "MPEG-4 Visual", "Simple", "0.17", "AAC", "38">>) @@
    (43  :> <<"webm", "360p", "VP8", "N/A", "0.5", "Vorbis", "128">>) @@
    (100 :> <<"webm", "360p", "VP8", "3D", "N/A", "Vorbis", "128">>) @@
    (18  :> <<"mp4", "360p", "H.264", "Baseline", "0.5", "AAC", "96">>) @@
    (22  :> <<"mp4", "720p", "H.264", "High", "2-2.9", "AAC", "192">>) @@
    (82  :> <<"mp4", "360p", "H.264", "3D", "0.5", "AAC", "96">>) @@
    (83  :> <<"mp4", "240p", "H.264", "3D", "0.5", "AAC", "96">>) @@
    (84  :> <<"mp4", "720p", "H.264", "3D", "2-2.9", "AAC", "152">>) @@
    (85  :> <<"mp4", "1080p", "H.264", "3D", "2-2.9", "AAC", "152">>)

YT_QUALITY_PROFILE_KEYS ==
    <<"extension", "resolution", "video_codec", "profile", "video_bitrate",
      "audio_codec", "audio_bitrate">>

\* dict(zip(YT_QUALITY_PROFILE_KEYS, quality_profile))
ZipProfile(quality_profile) ==
    [k \in {YT_QUALITY_PROFILE_KEYS[i] : i \in 1..Len(YT_QUALITY_PROFILE_KEYS)} |->
        quality_profile[CHOOSE i \in 1..Len(YT_QUALITY_PROFILE_KEYS) :
                            YT_QUALITY_PROFILE_KEYS[i] = k]]

\* the tokens that \d+ matches, and int() of each
DigitValue ==
    ("5" :> 5) @@ ("18" :> 18) @@ ("22" :> 22) @@ ("43" :> 43) @@ ("999" :> 999)

\* re.compile('itag=(\d+)').findall(video_url): the digit groups, in order
RECURSIVE ItagFindall(_, _)
ItagFindall(url, from) ==
    IF from + 2 > Len(url) THEN <<>>
    ELSE IF url[from] = "itag" /\ url[from + 1] = "=" /\ url[from + 2] \in DOMAIN DigitValue
         THEN <<url[from + 2]>> \o ItagFindall(url, from + 3)
         ELSE ItagFindall(url, from + 1)

_get_quality_profile_from_url_Strict(video_url) ==
    LET itag == ItagFindall(video_url, 1)
    IN IF Len(itag) = 1 /\ DigitValue[itag[1]] \in DOMAIN YT_QUALITY_PROFILES
       THEN [kind |-> "return", itag |-> DigitValue[itag[1]], none |-> FALSE,
             quality_profile |-> ZipProfile(YT_QUALITY_PROFILES[DigitValue[itag[1]]])]
       ELSE [kind |-> "raise", type |-> "PytubeError"]

\* returns (itag, profile), (itag, None) for an itag the table lacks (none is
\* TRUE and there is no profile), and raises PytubeError on no itag and on
\* several
_get_quality_profile_from_url(video_url) ==
    LET itag == ItagFindall(video_url, 1)
    IN IF itag # <<>> /\ Len(itag) = 1
       THEN LET n == DigitValue[itag[1]]
            IN IF n \notin DOMAIN YT_QUALITY_PROFILES
               THEN [kind |-> "return", itag |-> n, none |-> TRUE]
               ELSE [kind |-> "return", itag |-> n, none |-> FALSE,
                     quality_profile |-> ZipProfile(YT_QUALITY_PROFILES[n])]
       ELSE [kind |-> "raise", type |-> "PytubeError"]

\* except (TypeError, KeyError) in the record loop of from_url
CaughtInLoop(type) == type \in {"TypeError", "KeyError"}

----------------------------------------------------------------------------
(* Video, _add_video, filename *)

\* utils.safe_filename: the characters a file name may not hold are removed
safe_filename(title) == SelectSeq(title, LAMBDA t : t \notin {"/", ":"})

\* models.Video(url, filename, **quality_profile)
Video(url, filename, quality_profile) ==
    [url |-> url, filename |-> filename] @@ quality_profile

\* the rank Video's ordering compares: the number of lines of the resolution
ResolutionRank(v) ==
    CASE v.resolution = "144p" -> 144
      [] v.resolution = "240p" -> 240
      [] v.resolution = "360p" -> 360
      [] v.resolution = "720p" -> 720
      [] v.resolution = "1080p" -> 1080

\* list.sort() of a list whose last element alone may be out of place: the
\* sort is stable, so the new video goes after every video of its rank
RECURSIVE SortAppended(_, _)
SortAppended(vs, v) ==
    IF vs = <<>> THEN <<v>>
    ELSE IF ResolutionRank(vs[Len(vs)]) <= ResolutionRank(v) THEN Append(vs, v)
    ELSE Append(SortAppended(SubSeq(vs, 1, Len(vs) - 1), v), vs[Len(vs)])

\* the filename property: generated from the title when not set ("if not
\* self._filename": None and the empty text)
FilenameOf(y) ==
    IF y._filename = None \/ y._filename = <<>>
    THEN safe_filename(y.title) ELSE y._filename

\* self._add_video(url, self.filename, **quality_profile)
_add_video(y, url, quality_profile) ==
    [y EXCEPT !._filename = FilenameOf(y),
              !._videos = SortAppended(@, Video(url, FilenameOf(y), quality_profile))]

\* YouTube(): __init__ without a url
NewYouTube ==
    [_filename |-> None, _video_url |-> None, _js_code |-> False,
     _videos |-> <<>>, title |-> None]

----------------------------------------------------------------------------
(* _get_cipher *)

\* "not self._js_code": False and the empty text are both falsy
NotJsCode_Always(js_code) == TRUE

NotJsCode(js_code) == js_code = False \/ js_code = <<>>

NoMatch == "no match"

\* reg_exp.search(js_code) for \.sig\|\|([a-zA-Z0-9$]+)\( : the name of the
\* first match, NoMatch without a match
SigPatternSearch(js_code) ==
    LET hits == {i \in 1..(Len(js_code) - 2) :
                    js_code[i] = ".sig||" /\ js_code[i + 2] = "("}
    IN IF hits = {} THEN NoMatch
       ELSE js_code[(CHOOSE i \in hits : \A j \in hits : i <= j) + 1]

\* JSInterpreter(js_code).extract_function(func)([signature]): the function
\* named func is found as the tokens "function", func, body; the bodies the
\* interpreter evaluates are the permutations "reverse" and "swap"
JSInterpret(js_code, func, signature) ==
    LET defs == {i \in 1..(Len(js_code) - 2) :
                    js_code[i] = "function" /\ js_code[i + 1] = func}
    IN IF defs = {} THEN [kind |-> "raise", type |-> "Exception"]
       ELSE LET body == js_code[(CHOOSE i \in defs : \A j \in defs : i <= j) + 2]
            IN CASE body = "reverse" ->
                      [kind |-> "return",
                       value |-> [i \in 1..Len(signature) |->
                                     signature[Len(signature) + 1 - i]]]
                 [] body = "swap" ->
                      [kind |-> "return",
                       value |-> [i \in 1..Len(signature) |->
                                     IF i = 1 THEN signature[Len(signature)]
                                     ELSE IF i = Len(signature) THEN signature[1]
                                     ELSE signature[i]]]
                 [] OTHER -> [kind |-> "raise", type |-> "Exception"]

\* the try block: without a match func is never bound and its use raises
\* NameError; every exception of the block is re-raised as CipherError
CipherTry_PatternMissReturnsFalse(js_code, signature) ==
    LET func == SigPatternSearch(js_code)
        r == IF func = NoMatch THEN [kind |-> "return", value |-> False]
             ELSE JSInterpret(js_code, func, signature)
    IN IF r.kind = "raise" THEN [kind |-> "raise", type |-> "CipherError"]
       ELSE r

CipherTry(js_code, signature) ==
    LET func == SigPatternSearch(js_code)
        r == IF func = NoMatch THEN [kind |-> "raise", type |-> "NameError"]
             ELSE JSInterpret(js_code, func, signature)
    IN IF r.kind = "raise" THEN [kind |-> "raise", type |-> "CipherError"]
       ELSE r

\* urlopen(url) of a script url: the response the network gives for it
ScriptResponse(url) ==
    CASE url = <<"http:", "/rev.js">> ->
           [kind |-> "ok", text |-> <<"a.sig||", ".sig||", "f", "(", "function", "f", "reverse">>]
      [] url = <<"http:", "/swap.js">> ->
           [kind |-> "ok", text |-> <<".sig||", "g", "(", "function", "g", "swap">>]
      [] url = <<"http:", "/nopattern.js">> ->
           [kind |-> "ok", text |-> <<"function", "f", "reverse">>]
      [] url = <<"http:", "/nofunction.js">> ->
           [kind |-> "ok", text |-> <<".sig||", "f", "(">>]
      [] url = <<"http:", "/throws.js">> ->
           [kind |-> "ok", text |-> <<".sig||", "f", "(", "function", "f", "throw">>]
      [] url = <<"http:", "/empty.js">> -> [kind |-> "ok", text |-> <<>>]
      [] OTHER -> [kind |-> "none"]

\* _get_cipher on instance y: the instance afterwards, whether the script
\* was fetched, and the value returned or the exception raised
_get_cipher(y, signature, url) ==
    LET fetch == NotJsCode(y._js_code)
        resp  == ScriptResponse(url)
    IN IF fetch /\ resp.kind = "none"
       THEN [y |-> y, fetched |-> TRUE, kind |-> "raise", type |-> "PytubeError",
             site |-> "script_fetch"]
       ELSE LET y1 == IF fetch THEN [y EXCEPT !._js_code = resp.text] ELSE y
                r  == CipherTry(y1._js_code, signature)
            IN IF r.kind = "raise"
               THEN [y |-> y1, fetched |-> fetch, kind |-> "raise", type |-> r.type,
                     site |-> "cipher"]
               ELSE [y |-> y1, fetched |-> fetch, kind |-> "return", value |-> r.value]

----------------------------------------------------------------------------
(* get_video_data and _get_json_data *)

ConfigMarker == "ytplayer.config = "

AgeMarker == "og:restrictions:age"

\* json.loads of the text cut out of the page: the object the page embeds
\* when the text is that whole object, ValueError otherwise
JsonLoads(text, config) ==
    IF text = <<"{", "cfg", "}">> THEN [kind |-> "return", value |-> config]
    ELSE [kind |-> "raise", type |-> "ValueError"]

\* html.find(marker) + 18 is where the text after the marker starts
_get_json_data(html, config) ==
    LET at == {i \in 1..Len(html) : html[i] = ConfigMarker}
        start == (CHOOSE i \in at : \A j \in at : i <= j) + 1
        rest == Slice(html, start, Len(html))
        offset == _get_json_offset(rest)
    IN IF offset.kind = "raise" THEN [kind |-> "raise", type |-> offset.value]
       ELSE IF offset.value = 0 THEN [kind |-> "raise", type |-> "PytubeError"]
       ELSE JsonLoads(Slice(rest, 1, offset.value), config)

\* get_video_data on instance y, response being what urlopen(self.url)
\* gives: the instance afterwards, and the decoded video data or the
\* exception raised
get_video_data_AgeCheckAfterJson(y, response) ==
    LET y1 == [y EXCEPT !.title = None]
    IN IF response.fetch = "raise"
       THEN [y |-> y1, kind |-> "raise", type |-> "URLError", site |-> "page_fetch"]
       ELSE IF response.fetch = "none"
       THEN [y |-> y1, kind |-> "raise", type |-> "PytubeError", site |-> "page_fetch"]
       ELSE LET json_object == _get_json_data(response.html, response.config)
            IN IF json_object.kind = "raise"
               THEN [y |-> y1, kind |-> "raise", type |-> json_object.type,
                     site |-> "json"]
               ELSE IF Contains(response.html, <<AgeMarker>>)
               THEN [y |-> y1, kind |-> "raise", type |-> "AgeRestricted",
                     site |-> "age"]
               ELSE LET stream_map ==
                            _parse_stream_map(json_object.value.url_encoded_fmt_stream_map)
                    IN IF stream_map.err # "none"
                       THEN [y |-> y1, kind |-> "raise", type |-> stream_map.err,
                             site |-> "stream_map"]
                       ELSE [y |-> y1, kind |-> "return",
                             title |-> json_object.value.title,
                             js |-> json_object.value.js,
                             stream_map |-> stream_map.dct]

get_video_data(y, response) ==
    LET y1 == [y EXCEPT !.title = None]
    IN IF response.fetch = "raise"
       THEN [y |-> y1, kind |-> "raise", type |-> "URLError", site |-> "page_fetch"]
       ELSE IF response.fetch = "none"
       THEN [y |-> y1, kind |-> "raise", type |-> "PytubeError", site |-> "page_fetch"]
       ELSE IF Contains(response.html, <<AgeMarker>>)
       THEN [y |-> y1, kind |-> "raise", type |-> "AgeRestricted", site |-> "age"]
       ELSE LET json_object == _get_json_data(response.html, response.config)
            IN IF json_object.kind = "raise"
               THEN [y |-> y1, kind |-> "raise", type |-> json_object.type,
                     site |-> "json"]
               ELSE LET stream_map ==
                            _parse_stream_map(json_object.value.url_encoded_fmt_stream_map)
                    IN IF stream_map.err # "none"
                       THEN [y |-> y1, kind |-> "raise", type |-> stream_map.err,
                             site |-> "stream_map"]
                       ELSE [y |-> y1, kind |-> "return",
                             title |-> json_object.value.title,
                             js |-> json_object.value.js,
                             stream_map |-> stream_map.dct]

----------------------------------------------------------------------------
(* from_url *)

NoError == [type |-> "none", site |-> "none"]

NoResponse == [fetch |-> "not fetched"]

\* the activation of from_url before a call: pc is the position ("idle",
\* "loop", "done", "raised"), err the exception raised and where, fetches
\* the urlopen calls of the activation in order, ciphers its _get_cipher
\* calls, pre the collection when the call began, response the page the
\* network gave, prev how the instance's previous call ended
NoCall ==
    [pc |-> "idle", err |-> NoError, js_url |-> None, stream_map |-> EmptyDct,
     video_urls |-> <<>>, idx |-> 0, fetches |-> <<>>, ciphers |-> <<>>,
     pre |-> <<>>, response |-> NoResponse, prev |-> "none"]

Raised(c, type, site) == [c EXCEPT !.pc = "raised", !.err = [type |-> type, site |-> site]]

\* from_url up to the record loop (lines 156-173); response is what the
\* network gives for url
FromUrlBegin(y, url, response) ==
    LET y1 == [y EXCEPT !._video_url = url, !._filename = None]
        c1 == [NoCall EXCEPT !.pre = y._videos, !.fetches = <<"page">>,
                             !.response = response]
        video_data == get_video_data(y1, response)
    IN IF video_data.kind = "raise"
       THEN [y |-> video_data.y, c |-> Raised(c1, video_data.type, video_data.site)]
       ELSE [y |-> [video_data.y EXCEPT !.title = video_data.title],
             c |-> [c1 EXCEPT !.pc = "loop",
                              !.js_url = <<"http:", video_data.js>>,
                              !.stream_map = video_data.stream_map,
                              !.video_urls = video_data.stream_map["url"]]]

SignatureParam == <<"signature", "=">>

\* one iteration of "for idx, url in enumerate(video_urls)" (lines 177-195),
\* or the end of the loop; c.idx is the 0-based idx of the next record
FromUrlIterate(y, c) ==
    IF c.idx >= Len(c.video_urls) THEN [y |-> y, c |-> [c EXCEPT !.pc = "done"]]
    ELSE
    LET url == c.video_urls[c.idx + 1]
        next == [c EXCEPT !.idx = @ + 1]
        qp == _get_quality_profile_from_url(url)
    IN IF qp.kind = "raise"
       THEN IF CaughtInLoop(qp.type) THEN [y |-> y, c |-> next]
            ELSE [y |-> y, c |-> Raised(c, qp.type, "itag")]
       ELSE IF qp.none THEN [y |-> y, c |-> next]
       ELSE IF Contains(url, SignatureParam)
       THEN [y |-> _add_video(y, url, qp.quality_profile), c |-> next]
       ELSE IF c.idx + 1 > Len(c.stream_map["s"])
       THEN [y |-> y, c |-> Raised(c, "IndexError", "sig_index")]
       ELSE LET s == c.stream_map["s"][c.idx + 1]
                r == _get_cipher(y, s, c.js_url)
                logged == [next EXCEPT
                            !.fetches = IF r.fetched THEN Append(@, "script") ELSE @,
                            !.ciphers = Append(@, [idx |-> c.idx, signature |-> s,
                                                   url |-> c.js_url,
                                                   value |-> IF r.kind = "return"
                                                             THEN r.value ELSE None])]
            IN IF r.kind = "raise"
               THEN [y |-> r.y, c |-> Raised([logged EXCEPT !.idx = c.idx], r.type, r.site)]
               ELSE [y |-> _add_video(r.y, url \o <<"&">> \o SignatureParam \o r.value,
                                      qp.quality_profile),
                     c |-> logged]

\* from_url(url) from its first line to its return or raise
RECURSIVE FromUrlRun(_)
FromUrlRun(sess) ==
    IF sess.c.pc # "loop" THEN sess ELSE FromUrlRun(FromUrlIterate(sess.y, sess.c))

----------------------------------------------------------------------------
(* The pages of the model *)

\* percent-encoding of the delimiters, as the service encodes a url inside
\* the stream map
QuoteToken(t) ==
    CASE t = "," -> "%2C"
      [] t = "&" -> "%26"
      [] t = "=" -> "%3D"
      [] OTHER -> t

quote(s) == [i \in 1..Len(s) |-> QuoteToken(s[i])]

UrlBase == "http://h/v?"

StreamUrls ==
    [ signed22   |-> <<UrlBase, "itag", "=", "22", "&", "signature", "=", "x">>,
      signed999  |-> <<UrlBase, "itag", "=", "999", "&", "signature", "=", "x">>,
      noItag     |-> <<UrlBase, "signature", "=", "x">>,
      twoItags   |-> <<UrlBase, "itag", "=", "18", "&", "itag", "=", "22", "&",
                       "signature", "=", "x">>,
      unsigned18 |-> <<UrlBase, "itag", "=", "18">>,
      unsigned43 |-> <<UrlBase, "itag", "=", "43">> ]

\* the segments a stream map is made of: a record that carries a literal
\* signature has no s field
StreamSegments ==
    { <<"url", "=">> \o quote(StreamUrls.signed22),
      <<"url", "=">> \o quote(StreamUrls.signed999),
      <<"url", "=">> \o quote(StreamUrls.noItag),
      <<"url", "=">> \o quote(StreamUrls.twoItags),
      <<"s", "=", "a", "b", "&", "url", "=">> \o quote(StreamUrls.unsigned18),
      <<"url", "=">> \o quote(StreamUrls.unsigned43) \o <<"&", "s", "=", "c", "d">> }

StreamBlobs == { Join(ss, ",") : ss \in SeqsUpTo(StreamSegments, MaxSegs) }

ScriptPaths ==
    {"/rev.js", "/swap.js", "/nopattern.js", "/nofunction.js", "/throws.js", "/empty.js",
     "/down.js"}

PageHtml == <<"<html>", ConfigMarker, "{", "cfg", "}", ";", "}">>

Title == <<"My", "/", "Video">>

GoodPages ==
    { [fetch |-> "ok", html |-> PageHtml,
       config |-> [title |-> Title, js |-> js, url_encoded_fmt_stream_map |-> blob]] :
         js \in ScriptPaths, blob \in StreamBlobs }

DefaultConfig ==
    [title |-> Title, js |-> "/rev.js",
     url_encoded_fmt_stream_map |-> <<"url", "=">> \o quote(StreamUrls.signed22)]

BadPages ==
    { [fetch |-> "raise", html |-> <<>>, config |-> DefaultConfig],
      [fetch |-> "none", html |-> <<>>, config |-> DefaultConfig],
      [fetch |-> "ok", html |-> <<AgeMarker>> \o PageHtml, config |-> DefaultConfig],
      [fetch |-> "ok", html |-> <<ConfigMarker, "{", "cfg", "{", AgeMarker>>,
       config |-> DefaultConfig],
      [fetch |-> "ok", html |-> <<ConfigMarker, "{", "cfg", "{">>, config |-> DefaultConfig],
      [fetch |-> "ok", html |-> <<ConfigMarker, "{", "{", "cfg", "}", "}">>,
       config |-> DefaultConfig],
      [fetch |-> "ok", html |-> PageHtml,
       config |-> [DefaultConfig EXCEPT !.url_encoded_fmt_stream_map = None]],
      [fetch |-> "ok", html |-> PageHtml,
       config |-> [DefaultConfig EXCEPT !.url_encoded_fmt_stream_map = <<"bad">>]] }

PageResponses == GoodPages \cup BadPages

WatchUrls == {<<"http://youtube/watch?v=", "1">>}

----------------------------------------------------------------------------
(* The session *)

Init ==
    /\ yt = NewYouTube
    /\ call = NoCall
    /\ ref = [y |-> NewYouTube, c |-> NoCall]
    /\ calls = 0
    /\ pblob = Unused /\ pres = Unused /\ jhtml = Unused /\ jres = Unused
    /\ gcrit = Unused /\ gres = Unused

\* yt.from_url(url) is called, the network answers with response, and the
\* call runs up to its record loop; ref is what the same call with the same
\* responses leaves of a new YouTube() instance
FromUrl ==
    /\ call.pc = "idle"
    /\ calls < MaxCalls
    /\ \E url \in WatchUrls, response \in PageResponses :
        LET begun == FromUrlBegin(yt, url, response)
        IN /\ yt' = begun.y
           /\ call' = [begun.c EXCEPT !.prev = call.prev]
           /\ ref' = FromUrlRun(FromUrlBegin(NewYouTube, url, response))
    /\ calls' = calls + 1
    /\ UNCHANGED <<pblob, pres, jhtml, jres, gcrit, gres>>

\* the loop handles its next record, or ends
Iterate ==
    /\ call.pc = "loop"
    /\ LET step == FromUrlIterate(yt, call)
       IN yt' = step.y /\ call' = step.c
    /\ UNCHANGED <<ref, calls, pblob, pres, jhtml, jres, gcrit, gres>>

\* from_url has returned or raised: its locals are gone, the instance stays
Return ==
    /\ call.pc \in {"done", "raised"}
    /\ call' = [NoCall EXCEPT !.prev = call.pc]
    /\ ref' = [y |-> NewYouTube, c |-> NoCall]
    /\ UNCHANGED <<yt, calls, pblob, pres, jhtml, jres, gcrit, gres>>

Next == FromUrl \/ Iterate \/ Return

Spec == Init /\ [][Next]_vars

----------------------------------------------------------------------------
(* Claims about from_url *)

Ended == call.pc \in {"done", "raised"}

\* the call got past get_video_data: the stream map was decoded
LoopEntered ==
    \/ call.pc \in {"loop", "done"}
    \/ call.pc = "raised" /\ call.err.site \in {"itag", "sig_index", "script_fetch", "cipher"}

Signed(url) == Contains(url, SignatureParam)

\* the url holds exactly one itag=<digits> token, of a profile of the table
RecognizedItag(url) ==
    /\ Len(ItagFindall(url, 1)) = 1
    /\ DigitValue[ItagFindall(url, 1)[1]] \in DOMAIN YT_QUALITY_PROFILES

InCollection(url) == \E n \in 1..Len(yt._videos) : yt._videos[n].url = url

\* C1: a record whose url yields no itag or several, or whose signature
\* _get_cipher cannot resolve, does not abort from_url, and a call that
\* ends has every record with a recognized itag and a literal signature in
\* the collection.
C1_RecordFailuresIsolated ==
    /\ call.pc = "raised" => call.err.site \notin {"itag", "cipher"}
    /\ call.pc = "done" =>
         \A i \in 1..Len(call.video_urls) :
             (RecognizedItag(call.video_urls[i]) /\ Signed(call.video_urls[i])) =>
                 InCollection(call.video_urls[i])

\* the s value of segment i of the blob, as the service encoded it
SegmentToken(blob, i) ==
    LET pairs == SegmentPairs(BlobSegments(blob)[i])
    IN unquote(pairs[CHOOSE j \in 1..Len(pairs) : pairs[j][1] = <<"s">>][2])

HasToken(blob, i) ==
    \E j \in 1..Len(SegmentPairs(BlobSegments(blob)[i])) :
        SegmentPairs(BlobSegments(blob)[i])[j][1] = <<"s">>

\* C2: _get_cipher is invoked only for records without a literal signature,
\* with the s token of that record's own segment and the script url of the
\* call; and when the call is done, a signed record with a recognized itag is
\* in the collection with its url unchanged and an unsigned one with its
\* url followed by '&signature=' and the cipher's result.
C2_OwnSignatureToken ==
    LET blob == call.response.config.url_encoded_fmt_stream_map
    IN /\ \A n \in 1..Len(call.ciphers) :
            LET inv == call.ciphers[n]
            IN /\ ~Signed(call.video_urls[inv.idx + 1])
               /\ HasToken(blob, inv.idx + 1)
               /\ inv.signature = SegmentToken(blob, inv.idx + 1)
               /\ inv.url = call.js_url
       /\ call.pc = "done" =>
            \A i \in 1..Len(call.video_urls) :
                RecognizedItag(call.video_urls[i]) =>
                    IF Signed(call.video_urls[i])
                    THEN /\ InCollection(call.video_urls[i])
                         /\ \A n \in 1..Len(call.ciphers) : call.ciphers[n].idx # i - 1
                    ELSE \E n \in 1..Len(call.ciphers) :
                            /\ call.ciphers[n].idx = i - 1
                            /\ InCollection(call.video_urls[i] \o <<"&", "signature", "=">>
                                            \o call.ciphers[n].value)

\* the conditions the design calls fatal: a fetch failure (page or script),
\* an age restriction, a configuration that cannot be extracted, a stream
\* map that cannot be decoded
FatalSites == {"page_fetch", "script_fetch", "age", "json", "stream_map"}

\* C5: when from_url ends with a fatal condition, the collection is the one
\* the instance had before the call.
C5_NoPartialResult ==
    (call.pc = "raised" /\ call.err.site \in FatalSites) => yt._videos = call.pre

\* C6: a call fetches the page exactly once and first, then the script at
\* most once, and the script only if some record lacks a literal signature.
C6_AtMostTwoFetches ==
    /\ call.pc = "idle" => call.fetches = <<>>
    /\ call.pc # "idle" =>
         /\ call.fetches \in {<<"page">>, <<"page", "script">>}
         /\ Len(call.fetches) = 2 =>
              \E i \in 1..Len(call.video_urls) : ~Signed(call.video_urls[i])

\* two records without a signature were resolved in one call
C6_Witness ==
    /\ call.pc = "done"
    /\ Len(call.ciphers) = 2
    /\ call.fetches = <<"page", "script">>

\* C7: from_url on an instance that already completed a from_url leaves the
\* collection that the same call, with the same responses, leaves on a new
\* instance.
C7_SameAsFreshInstance ==
    (call.pc = "done" /\ call.prev = "done") => yt._videos = ref.y._videos

\* how many times v occurs in the sequence vs
Count(vs, v) == Cardinality({n \in 1..Len(vs) : vs[n] = v})

\* the video from_url makes of a signed url of a known itag
ExpectedVideo(url) ==
    Video(url, safe_filename(call.response.config.title),
          ZipProfile(YT_QUALITY_PROFILES[DigitValue[ItagFindall(url, 1)[1]]]))

\* every url of the stream map holds one itag=<digits> token and a signature
AllSignedOneItag ==
    \A i \in 1..Len(call.video_urls) :
        Len(ItagFindall(call.video_urls[i], 1)) = 1 /\ Signed(call.video_urls[i])

\* C9: for a stream map whose records each hold one itag=<digits> token and a
\* literal signature, from_url ends without error, and it has added to the
\* collection exactly one video per record whose itag is in the table, with
\* that itag's seven profile fields (22: mp4, 720p, H.264, High, 2-2.9, AAC,
\* 192), and none for a record whose itag is not in the table.
C9_UnknownItagsSkipped ==
    (Ended /\ LoopEntered /\ AllSignedOneItag) =>
        LET known == {i \in 1..Len(call.video_urls) : RecognizedItag(call.video_urls[i])}
            unknown == {i \in 1..Len(call.video_urls) : ~RecognizedItag(call.video_urls[i])}
        IN /\ call.pc = "done"
           /\ Len(yt._videos) = Len(call.pre) + Cardinality(known)
           /\ \A i \in known :
                Count(yt._videos, ExpectedVideo(call.video_urls[i])) =
                    Count(call.pre, ExpectedVideo(call.video_urls[i]))
                    + Cardinality({j \in known : call.video_urls[j] = call.video_urls[i]})
           /\ \A i \in unknown : ~InCollection(call.video_urls[i])
           /\ \A n \in 1..Len(yt._videos) :
                yt._videos[n].url = StreamUrls.signed22 =>
                    /\ yt._videos[n].extension = "mp4"
                    /\ yt._videos[n].resolution = "720p"
                    /\ yt._videos[n].video_codec = "H.264"
                    /\ yt._videos[n].profile = "High"
                    /\ yt._videos[n].video_bitrate = "2-2.9"
                    /\ yt._videos[n].audio_codec = "AAC"
                    /\ yt._videos[n].audio_bitrate = "192"

\* a map with a known and an unknown itag, both signed, was resolved
C9_Witness ==
    /\ call.pc = "done"
    /\ AllSignedOneItag
    /\ \E i, j \in 1..Len(call.video_urls) :
        /\ RecognizedItag(call.video_urls[i])
        /\ ~RecognizedItag(call.video_urls[j])
    /\ Len(yt._videos) = Len(call.pre) + 1

----------------------------------------------------------------------------
(* get and filter *)

\* an argument left at its default None; "if extension and ..." also takes
\* the empty text for no criterion
NoneArg == "None"

Truthy(arg) == arg \notin {NoneArg, ""}

\* the if / elif chain of both loops: whether video v is appended
Appended(v, extension, resolution, profile) ==
    IF Truthy(extension) /\ v.extension # extension THEN FALSE
    ELSE IF Truthy(resolution) /\ v.resolution # resolution THEN FALSE
    ELSE IF Truthy(profile) /\ v.profile # profile THEN FALSE
    ELSE TRUE

\* the loop "for v in self.get_videos()" of get and of filter
RECURSIVE MatchLoop(_, _, _, _)
MatchLoop(videos, extension, resolution, profile) ==
    IF videos = <<>> THEN <<>>
    ELSE (IF Appended(Head(videos), extension, resolution, profile)
          THEN <<Head(videos)>> ELSE <<>>)
         \o MatchLoop(Tail(videos), extension, resolution, profile)

filter(y, extension, resolution, profile) ==
    MatchLoop(y._videos, extension, resolution, profile)

\* get: no match returns a DoesNotExist instance, one match returns the
\* video, several raise MultipleObjectsReturned
get(y, extension, resolution, profile) ==
    LET result == MatchLoop(y._videos, extension, resolution, profile)
        matches == Len(result)
    IN IF matches <= 0
       THEN [kind |-> "return", value |-> [is |-> "DoesNotExist"]]
       ELSE IF matches = 1
       THEN [kind |-> "return", value |-> [is |-> "Video", video |-> result[1]]]
       ELSE [kind |-> "raise", value |-> [is |-> "MultipleObjectsReturned"]]

\* the collections queried: what _add_video makes of a new instance
GetItags == {5, 18, 22, 43}

SignedUrl(itag) ==
    <<UrlBase, "itag", "=", CHOOSE d \in DOMAIN DigitValue : DigitValue[d] = itag,
      "&", "signature", "=", "x">>

RECURSIVE AddAll(_, _)
AddAll(y, itags) ==
    IF itags = <<>> THEN y
    ELSE AddAll(_add_video(y, SignedUrl(Head(itags)),
                           ZipProfile(YT_QUALITY_PROFILES[Head(itags)])),
                Tail(itags))

GetInstances ==
    { AddAll([NewYouTube EXCEPT !.title = Title], itags) :
        itags \in {<<>>} \cup SeqsUpTo(GetItags, MaxVideos) }

GetCriteria ==
    [extension : {NoneArg, "", "mp4", "webm", "avi"},
     resolution : {NoneArg, "360p", "720p"},
     profile : {NoneArg, "High"}]

GetInit ==
    /\ yt \in GetInstances
    /\ gcrit \in GetCriteria
    /\ gres = [op |-> "pending"]
    /\ call = Unused /\ ref = Unused /\ calls = 0
    /\ pblob = Unused /\ pres = Unused /\ jhtml = Unused /\ jres = Unused

Get ==
    /\ gres.op = "pending"
    /\ gres' = [op |-> "get"] @@ get(yt, gcrit.extension, gcrit.resolution, gcrit.profile)
    /\ UNCHANGED <<yt, call, ref, calls, pblob, pres, jhtml, jres, gcrit>>

Filter ==
    /\ gres.op = "pending"
    /\ gres' = [op |-> "filter", kind |-> "return",
                value |-> filter(yt, gcrit.extension, gcrit.resolution, gcrit.profile)]
    /\ UNCHANGED <<yt, call, ref, calls, pblob, pres, jhtml, jres, gcrit>>

GetNext == Get \/ Filter

SpecGet == GetInit /\ [][GetNext]_vars

\* video v satisfies every criterion that was supplied
Satisfies(v, crit) ==
    /\ Truthy(crit.extension) => v.extension = crit.extension
    /\ Truthy(crit.resolution) => v.resolution = crit.resolution
    /\ Truthy(crit.profile) => v.profile = crit.profile

\* C10: get returns the video when exactly one matches, signals DoesNotExist
\* as an error when none matches and MultipleObjectsReturned as an error when
\* several match, never yields a video outside filter(...); and filter
\* returns all the videos that satisfy every supplied criterion.
C10_GetOutcomes ==
    LET matching == SelectSeq(yt._videos, LAMBDA v : Satisfies(v, gcrit))
    IN /\ gres.op = "filter" => gres.value = matching
       /\ gres.op = "get" =>
            /\ Len(matching) = 1 =>
                 gres = [op |-> "get", kind |-> "return",
                         value |-> [is |-> "Video", video |-> matching[1]]]
            /\ Len(matching) = 0 =>
                 gres = [op |-> "get", kind |-> "raise",
                         value |-> [is |-> "DoesNotExist"]]
            /\ Len(matching) > 1 =>
                 gres = [op |-> "get", kind |-> "raise",
                         value |-> [is |-> "MultipleObjectsReturned"]]

----------------------------------------------------------------------------
(* age restriction *)

\* the page text of the call holds the age restriction marker
AgeMarked ==
    /\ call.pc # "idle"
    /\ call.response.fetch = "ok"
    /\ Contains(call.response.html, <<AgeMarker>>)

\* C11: when the text of the fetched page holds "og:restrictions:age",
\* from_url ends with AgeRestricted raised by the age check, whatever the
\* rest of the page holds; the page is the only fetch of the call, no
\* stream map was decoded, no signature was resolved, and the collection is
\* the one the instance had before the call.
C11_AgeRestrictedFirst ==
    AgeMarked =>
        /\ call.pc = "raised"
        /\ call.err = [type |-> "AgeRestricted", site |-> "age"]
        /\ call.fetches = <<"page">>
        /\ call.stream_map = EmptyDct
        /\ call.video_urls = <<>>
        /\ call.ciphers = <<>>
        /\ yt._videos = call.pre

\* an instance that holds videos met an age restricted page whose
\* configuration cannot be extracted
C11_Witness ==
    /\ AgeMarked
    /\ _get_json_data(call.response.html, call.response.config).kind = "raise"
    /\ call.err.type = "AgeRestricted"
    /\ call.pre # <<>>
    /\ yt._videos = call.pre

----------------------------------------------------------------------------
(* failures of the cipher *)

\* _get_cipher ran in the call and held a script text when it entered its
\* try block
ScriptObtained ==
    /\ call.ciphers # <<>>
    /\ ~(call.pc = "raised" /\ call.err.site = "script_fetch")

\* no ".sig||", name, "(" run in the text
PatternMiss(js) == ~\E i \in 1..(Len(js) - 2) : js[i] = ".sig||" /\ js[i + 2] = "("

\* the name of the first ".sig||", name, "(" run of the text
SigName(js) ==
    js[(CHOOSE i \in 1..(Len(js) - 2) :
            /\ js[i] = ".sig||" /\ js[i + 2] = "("
            /\ \A j \in 1..(i - 1) : ~(js[j] = ".sig||" /\ js[j + 2] = "(")) + 1]

\* the text does not define a function of that name
NotExtractable(js, name) ==
    ~\E i \in 1..(Len(js) - 2) : js[i] = "function" /\ js[i + 1] = name

\* the first definition of the function has a body that cannot be evaluated
EvaluationFails(js, name) ==
    \E i \in 1..(Len(js) - 2) :
        /\ js[i] = "function" /\ js[i + 1] = name
        /\ \A j \in 1..(i - 1) : ~(js[j] = "function" /\ js[j + 1] = name)
        /\ js[i + 2] \notin {"reverse", "swap"}

\* one of the three failures of the try block happens on the text
CipherFails(js) ==
    \/ PatternMiss(js)
    \/ ~PatternMiss(js) /\ NotExtractable(js, SigName(js))
    \/ ~PatternMiss(js) /\ EvaluationFails(js, SigName(js))

\* C12: once _get_cipher holds a script text, a pattern that does not match
\* it, a function that cannot be extracted from it and a function whose
\* evaluation fails each end from_url with CipherError raised by _get_cipher
\* and with no value returned: no video was added for the record, neither
\* with False, nor with None, nor with the undecoded signature; and an error
\* raised by the try block is never of another kind.
C12_CipherFailuresAreCipherError ==
    /\ (call.pc = "raised" /\ call.err.site = "cipher") => call.err.type = "CipherError"
    /\ ScriptObtained =>
         \A n \in 1..Len(call.ciphers) :
            LET inv == call.ciphers[n]
                url == call.video_urls[inv.idx + 1] \o <<"&">> \o SignatureParam
            IN IF CipherFails(yt._js_code)
               THEN /\ call.pc = "raised"
                    /\ call.err = [type |-> "CipherError", site |-> "cipher"]
                    /\ inv.value = None
                    /\ \A k \in 1..Len(yt._videos) :
                          yt._videos[k].url \notin
                              {url \o False, url \o None, url \o inv.signature}
               ELSE /\ inv.value \notin {None, False}
                    /\ ~(call.pc = "raised" /\ call.err.site = "cipher")

\* a script text without the pattern ended the call with CipherError
C12_Witness ==
    /\ ScriptObtained
    /\ yt._js_code # <<>>
    /\ PatternMiss(yt._js_code)
    /\ call.pc = "raised"
    /\ call.err.type = "CipherError"

\* a script text without the named function ended the call
C12_NotExtractableReached ==
    /\ ScriptObtained
    /\ ~PatternMiss(yt._js_code)
    /\ NotExtractable(yt._js_code, SigName(yt._js_code))
    /\ call.pc = "raised"

\* a script text whose function cannot be evaluated ended the call
C12_EvaluationFailsReached ==
    /\ ScriptObtained
    /\ ~PatternMiss(yt._js_code)
    /\ EvaluationFails(yt._js_code, SigName(yt._js_code))
    /\ call.pc = "raised"

====
